---- MODULE Spec2Model ----
(***************************************************************************)
(* Model of two parts of the Mun compiler:                                 *)
(*   crates/mun_hir/src/source_id.rs      -- AstIdMap, stable item ids     *)
(*   crates/mun_codegen/src/ir/intrinsics.rs -- intrinsic collection       *)
(*                                                                         *)
(* A syntax tree is a function from node paths (sequences of 1-based child *)
(* indices, the root being <<>>) to syntax kinds.  An expression body is   *)
(* the same shape with expression classes as labels.                       *)
(***************************************************************************)
EXTENDS Naturals, Integers, Sequences, FiniteSets, TLC

\* Bound on the number of non-root nodes of a syntax tree.
MaxNodes == 4

\* Bound on the number of expressions of a body.
MaxExprs == 3

VARIABLES
    tree,      \* the current parse of the file (db.parse(file_id))
    arena,     \* AstIdMap.arena of the current parse (db.ast_id_map(file_id))
    held,      \* an Arc<AstIdMap> obtained before the last reparse
    res,       \* the pending result of an ast_id / get call
    lastEdit,  \* history: the edit that led to the current parse
    body,        \* the typed body handed to the collector (hir::Body + inference)
    db,          \* the IrDatabase state (context and target) the collector reads
    entries,     \* the caller's IntrinsicsMap, in iteration order
    needs_alloc, \* the caller's needs_alloc flag
    first,       \* history: the database state at the first request of each intrinsic
    call         \* the last call made on the accumulator and how it ended

astVars == <<tree, arena, held, res, lastEdit>>

bodyVars == <<body, db, entries, needs_alloc, first, call>>

vars == <<tree, arena, held, res, lastEdit,
          body, db, entries, needs_alloc, first, call>>

-----------------------------------------------------------------------------
(* Syntax trees                                                            *)

Root == <<>>

ItemKinds == {"FUNCTION_DEF"}
NodeKinds == ItemKinds \cup {"BLOCK_EXPR"}

IsPrefix(p, q) == Len(p) <= Len(q) /\ SubSeq(q, 1, Len(p)) = p

Front(q) == SubSeq(q, 1, Len(q) - 1)

Last(q) == q[Len(q)]

\* Number of child nodes of p.
Arity(t, p) ==
    Cardinality({q \in DOMAIN t : Len(q) = Len(p) + 1 /\ IsPrefix(p, q)})

\* SyntaxNode::children(): the child nodes in document order.
children(t, p) == [i \in 1..Arity(t, p) |-> Append(p, i)]

\* ast::ModuleItem::cast succeeds exactly for the item kinds.
ModuleItem_cast(kind) == kind \in ItemKinds

\* Length of the tokens a node owns itself: an item starts with its keyword,
\* the other nodes of the model own no token.
OwnLen(kind) == IF kind \in ItemKinds THEN 1 ELSE 0

RECURSIVE TextLen(_, _)
RECURSIVE SumTextLen(_, _, _)
\* Sum of the text lengths of the first n children of p.
SumTextLen(t, p, n) ==
    IF n = 0 THEN 0
    ELSE SumTextLen(t, p, n - 1) + TextLen(t, Append(p, n))

TextLen(t, p) == OwnLen(t[p]) + SumTextLen(t, p, Arity(t, p))

RECURSIVE TextStart(_, _)
TextStart(t, p) ==
    IF p = Root THEN 0
    ELSE TextStart(t, Front(p)) + OwnLen(t[Front(p)])
            + SumTextLen(t, Front(p), Last(p) - 1)

\* SyntaxNodePtr::new(node): the text range and the kind of the node.
SyntaxNodePtr(t, p) ==
    [range |-> <<TextStart(t, p), TextStart(t, p) + TextLen(t, p)>>,
     kind  |-> t[p]]

-----------------------------------------------------------------------------
(* bfs and AstIdMap                                                        *)

RECURSIVE ExtendChildren(_, _)
\* next_layer after draining curr_layer: the children of each node, in order.
ExtendChildren(t, layer) ==
    IF layer = <<>> THEN <<>>
    ELSE children(t, Head(layer)) \o ExtendChildren(t, Tail(layer))

RECURSIVE bfs_layers(_, _, _)
\* The while loop of bfs: calls is the sequence of nodes f was called with.
bfs_layers(t, curr_layer, calls) ==
    IF curr_layer = <<>> THEN calls
    ELSE bfs_layers(t, ExtendChildren(t, curr_layer), calls \o curr_layer)

RECURSIVE dfs_visit(_, _)
RECURSIVE dfs_children(_, _, _)
dfs_visit(t, p) == <<p>> \o dfs_children(t, p, 1)

dfs_children(t, p, i) ==
    IF i > Arity(t, p) THEN <<>>
    ELSE dfs_visit(t, Append(p, i)) \o dfs_children(t, p, i + 1)

\* Variant of bfs: a recursive walk, each node before its children.
bfs_depth_first(t, node) == dfs_visit(t, node)

RECURSIVE stack_walk(_, _)
\* Variant of bfs: one work list used as a stack, the last pushed node first.
stack_walk(t, stack) ==
    IF stack = <<>> THEN <<>>
    ELSE <<Last(stack)>>
            \o stack_walk(t, Front(stack) \o children(t, Last(stack)))

bfs_stack(t, node) == stack_walk(t, <<node>>)

RECURSIVE layers_children_first(_, _, _)
layers_children_first(t, curr_layer, calls) ==
    IF curr_layer = <<>> THEN calls
    ELSE layers_children_first(t, ExtendChildren(t, curr_layer),
                               curr_layer \o calls)

\* Variant of bfs: f runs on a layer only after the layers below it.
bfs_children_first(t, node) == layers_children_first(t, <<node>>, <<>>)

\* bfs(node, f): the nodes f is called with, in call order.
bfs(t, node) == bfs_layers(t, <<node>>, <<>>)

\* AstIdMap::alloc: Arena::alloc appends and returns the new index.
alloc(a, ptr) == Append(a, ptr)

RECURSIVE alloc_every_node(_, _, _)
\* Variant of the closure: allocates for every node, without the cast.
alloc_every_node(t, calls, a) ==
    IF calls = <<>> THEN a
    ELSE alloc_every_node(t, Tail(calls),
                          alloc(a, SyntaxNodePtr(t, Head(calls))))

RECURSIVE alloc_items(_, _, _)
\* The closure passed to bfs by from_source, applied to each call in order.
alloc_items(t, calls, a) ==
    IF calls = <<>> THEN a
    ELSE alloc_items(t, Tail(calls),
            IF ModuleItem_cast(t[Head(calls)])
            THEN alloc(a, SyntaxNodePtr(t, Head(calls)))
            ELSE a)

\* AstIdMap::from_source(node); node is the root, as the assert demands.
from_source(t) == alloc_items(t, bfs(t, Root), <<>>)

Panic == [panic |-> TRUE]

\* The AST node type a node of the given kind is handled as.
AstTypeOf(kind) ==
    CASE kind = "FUNCTION_DEF" -> "FunctionDef"
      [] kind = "BLOCK_EXPR"   -> "BlockExpr"
      [] OTHER                 -> "SourceFile"

\* N::can_cast(kind)
can_cast(ty, kind) == AstTypeOf(kind) = ty

\* arena.iter().find(|(_id, i)| **i == ptr): the first matching index.
FindEntry(a, ptr) ==
    LET hits == {i \in 1..Len(a) : a[i] = ptr}
    IN IF hits = {} THEN 0
       ELSE CHOOSE i \in hits : \A j \in hits : i <= j

\* Variant of ast_id: the position in the arena taken as the raw id.
ast_id_one_based(a, ptr) ==
    IF FindEntry(a, ptr) = 0 THEN Panic
    ELSE [raw |-> FindEntry(a, ptr), ty |-> AstTypeOf(ptr.kind)]

\* Variant of ast_id: a missing entry yields the default handle.
ast_id_or_default(a, ptr) ==
    IF FindEntry(a, ptr) = 0 THEN [raw |-> 0, ty |-> AstTypeOf(ptr.kind)]
    ELSE [raw |-> FindEntry(a, ptr) - 1, ty |-> AstTypeOf(ptr.kind)]

\* AstIdMap::ast_id(item): raw ids count from 0.
ast_id(a, ptr) ==
    IF FindEntry(a, ptr) = 0 THEN Panic
    ELSE [raw |-> FindEntry(a, ptr) - 1, ty |-> AstTypeOf(ptr.kind)]

\* AstIdMap::get(id): indexes the arena and casts the pointer to N.
get(a, id) ==
    IF id.raw + 1 > Len(a) THEN Panic
    ELSE IF ~can_cast(id.ty, a[id.raw + 1].kind) THEN Panic
    ELSE a[id.raw + 1]

-----------------------------------------------------------------------------
(* Edits of the file, each followed by the reparse and ast_id_map_query    *)

InsertAt(t, p, i, k) ==
    LET d == Len(p) + 1
        under(q) == IsPrefix(p, q) /\ Len(q) >= d
        new == Append(p, i)
        dom == {IF under(q) /\ q[d] >= i THEN [q EXCEPT ![d] = @ + 1] ELSE q
                    : q \in DOMAIN t} \cup {new}
    IN [r \in dom |->
            IF r = new THEN k
            ELSE IF under(r) /\ r[d] > i THEN t[[r EXCEPT ![d] = @ - 1]]
            ELSE t[r]]

RemoveAt(t, q) ==
    LET p == Front(q)
        d == Len(q)
        i == Last(q)
        under(r) == IsPrefix(p, r) /\ Len(r) >= d
        kept == {r \in DOMAIN t : ~IsPrefix(q, r)}
        dom == {IF under(r) /\ r[d] > i THEN [r EXCEPT ![d] = @ - 1] ELSE r
                    : r \in kept}
    IN [r \in dom |->
            IF under(r) /\ r[d] >= i THEN t[[r EXCEPT ![d] = @ + 1]]
            ELSE t[r]]

SwapAt(t, p, i) ==
    LET d == Len(p) + 1
        under(r) == IsPrefix(p, r) /\ Len(r) >= d
        sw(r) == IF under(r) /\ r[d] = i THEN [r EXCEPT ![d] = i + 1]
                 ELSE IF under(r) /\ r[d] = i + 1 THEN [r EXCEPT ![d] = i]
                 ELSE r
    IN [r \in {sw(q) : q \in DOMAIN t} |-> t[sw(r)]]

NoLookup == [op |-> "none"]

\* ast_id_map_query after the parse changed to t.  An edit arrives between
\* lookups, when no lookup result is pending.
Reparse(t, e) ==
    /\ res = NoLookup
    /\ tree' = t
    /\ lastEdit' = e
    /\ held' = arena
    /\ arena' = from_source(t)
    /\ res' = NoLookup
    /\ UNCHANGED bodyVars

InsertNode(p, i, k) ==
    /\ Cardinality(DOMAIN tree) - 1 < MaxNodes
    /\ p \in DOMAIN tree
    /\ i \in 1..(Arity(tree, p) + 1)
    /\ Reparse(InsertAt(tree, p, i, k), [op |-> "insert", at |-> p, pos |-> i])

RemoveNode(q) ==
    /\ q \in DOMAIN tree
    /\ q # Root
    /\ Reparse(RemoveAt(tree, q),
               [op |-> "remove", at |-> Front(q), pos |-> Last(q)])

ReorderChildren(p, i) ==
    /\ p \in DOMAIN tree
    /\ i \in 1..(Arity(tree, p) - 1)
    /\ Reparse(SwapAt(tree, p, i), [op |-> "reorder", at |-> p, pos |-> i])

\* A caller asks the current map, or the map it still holds, for the id of a
\* node of the current parse.
AstId(p, stale) ==
    /\ res = NoLookup
    /\ p \in DOMAIN tree
    /\ res' = [op    |-> "ast_id",
               node  |-> p,
               ptr   |-> SyntaxNodePtr(tree, p),
               stale |-> stale,
               id    |-> ast_id(IF stale THEN held ELSE arena,
                                SyntaxNodePtr(tree, p))]
    /\ UNCHANGED <<tree, arena, held, lastEdit>>
    /\ UNCHANGED bodyVars

\* AstId::to_node / AstIdMap::get: resolve the handle against the current map.
Get ==
    /\ res.op = "ast_id"
    /\ res.id # Panic
    /\ res' = [op    |-> "get",
               node  |-> res.node,
               ptr   |-> res.ptr,
               stale |-> res.stale,
               id    |-> res.id,
               got   |-> get(arena, res.id)]
    /\ UNCHANGED <<tree, arena, held, lastEdit>>
    /\ UNCHANGED bodyVars


-----------------------------------------------------------------------------
(* Typed bodies                                                            *)

\* What infer[callee].as_callable_def() yields for the callee of a call.
CallableDefs == {"Struct", "Function", "None"}

\* What resolve_path_without_assoc_items(..).take_values() yields for a path:
\* a struct definition, another value (a local, a function), or no value.
Resolutions == {"Struct", "Local", "None"}

Call(c) == [kind |-> "Call", callee |-> c, resolution |-> "-"]
RecordLit == [kind |-> "RecordLit", callee |-> "-", resolution |-> "-"]
Path(r) == [kind |-> "Path", callee |-> "-", resolution |-> r]
Block == [kind |-> "Block", callee |-> "-", resolution |-> "-"]

ExprLabels ==
    {Call(c) : c \in CallableDefs} \cup {Path(r) : r \in Resolutions}
        \cup {RecordLit, Block}

-----------------------------------------------------------------------------
(* Intrinsics and the IntrinsicsMap                                        *)

Intrinsics == {"clone", "drop", "new"}

Dbs == {"db_a", "db_b"}

\* Intrinsic::prototype: the name and signature of the runtime function.
prototype(intrinsic, d) == [name |-> intrinsic]

\* Intrinsic::ir_type: the function type in the LLVM context of the database.
ir_type(intrinsic, d) == [fn |-> intrinsic, context |-> d]

\* Ord of FunctionPrototype: by name.
NameRank(name) ==
    CASE name = "clone" -> 1
      [] name = "drop"  -> 2
      [] name = "new"   -> 3

PrototypeLess(a, b) == NameRank(a.name) < NameRank(b.name)

\* Variant of or_insert_with: BTreeMap::insert, which replaces the value.
insert_overwrite(m, k, v) ==
    IF \E i \in 1..Len(m) : m[i].key = k
    THEN [i \in 1..Len(m) |->
            IF m[i].key = k THEN [key |-> k, value |-> v] ELSE m[i]]
    ELSE LET n == Cardinality({i \in 1..Len(m) : PrototypeLess(m[i].key, k)})
         IN SubSeq(m, 1, n) \o <<[key |-> k, value |-> v]>>
                \o SubSeq(m, n + 1, Len(m))

\* Variant of or_insert_with: a map that iterates in insertion order.
or_insert_at_end(m, k, v) ==
    IF \E i \in 1..Len(m) : m[i].key = k THEN m
    ELSE Append(m, [key |-> k, value |-> v])

\* BTreeMap::entry(k).or_insert_with(v): m is the map in iteration order.
or_insert_with(m, k, v) ==
    IF \E i \in 1..Len(m) : m[i].key = k THEN m
    ELSE LET n == Cardinality({i \in 1..Len(m) : PrototypeLess(m[i].key, k)})
         IN SubSeq(m, 1, n) \o <<[key |-> k, value |-> v]>>
                \o SubSeq(m, n + 1, Len(m))

\* History kept next to the map: the database of the first request.
NoteFirst(f, intrinsic, d) ==
    IF intrinsic \in DOMAIN f THEN f ELSE f @@ (intrinsic :> d)

\* collect_intrinsic(d, entries, intrinsic) on the accumulator st.
collect_intrinsic(d, st, intrinsic) ==
    [st EXCEPT !.entries = or_insert_with(@, prototype(intrinsic, d),
                                          ir_type(intrinsic, d)),
               !.first = NoteFirst(@, intrinsic, d)]

\* collect_intrinsic(db, entries, &intrinsics::new); *needs_alloc = true;
request_new(d, st) ==
    [collect_intrinsic(d, st, "new") EXCEPT !.needs_alloc = TRUE]

NoPanic == [msg |-> "none", at |-> Root]

RaisePanic(st, e, m) == [st EXCEPT !.panic = [msg |-> m, at |-> e]]

\* Variant of visit_call: a callee that is not callable is skipped.
visit_call_skip_none(d, st, expr, e) ==
    IF expr.kind # "Call" THEN st
    ELSE IF expr.callee = "Struct" THEN request_new(d, st)
    ELSE st

\* The steps of collect_expr before it recurses; a panic ends the call.
visit_call(d, st, expr, e) ==
    IF expr.kind # "Call" THEN st
    ELSE CASE expr.callee = "Struct"   -> request_new(d, st)
           [] expr.callee = "Function" -> st
           [] OTHER -> RaisePanic(st, e, "expected a callable expression")

visit_record_lit(d, st, expr) ==
    IF st.panic # NoPanic \/ expr.kind # "RecordLit" THEN st
    ELSE request_new(d, st)

visit_path(d, st, expr, e) ==
    IF st.panic # NoPanic \/ expr.kind # "Path" THEN st
    ELSE IF expr.resolution = "None" THEN RaisePanic(st, e, "unknown path")
    ELSE IF expr.resolution = "Struct" THEN request_new(d, st)
    ELSE st

RECURSIVE collect_expr(_, _, _, _)
RECURSIVE walk_child_exprs(_, _, _, _, _)

\* Variant of collect_expr: the children of the children are not walked.
collect_expr_one_level(d, st, b, e) ==
    IF st.panic # NoPanic \/ Len(e) > 1 THEN st
    ELSE walk_child_exprs(d,
            visit_path(d,
                visit_record_lit(d, visit_call(d, st, b[e], e), b[e]),
                b[e], e),
            b, e, 1)

\* collect_expr(db, entries, needs_alloc, expr_id, body, infer)
collect_expr(d, st, b, e) ==
    IF st.panic # NoPanic THEN st
    ELSE walk_child_exprs(d,
            visit_path(d,
                visit_record_lit(d, visit_call(d, st, b[e], e), b[e]),
                b[e], e),
            b, e, 1)

\* expr.walk_child_exprs(f): the child expressions in order, from the i-th.
walk_child_exprs(d, st, b, e, i) ==
    IF i > Arity(b, e) THEN st
    ELSE walk_child_exprs(d, collect_expr(d, st, b, Append(e, i)), b, e, i + 1)

\* collect_fn_body: collect_expr from body.body_expr().
collect_fn_body(d, st, b) == collect_expr(d, st, b, Root)

\* collect_wrapper_body
collect_wrapper_body(d, st) == request_new(d, st)

-----------------------------------------------------------------------------
(* Calls on the accumulator                                                *)

NoFirst == [i \in {} |-> "db_a"]

NoCall ==
    [op |-> "none", fresh |-> FALSE, panic |-> NoPanic, intrinsic |-> "-",
     added |-> 0]

Accumulator ==
    [entries |-> entries, needs_alloc |-> needs_alloc, first |-> first,
     panic |-> NoPanic]

\* The accumulator after a call: a panic leaves what was written before it.
Finish(st, op, intrinsic) ==
    /\ entries' = st.entries
    /\ needs_alloc' = st.needs_alloc
    /\ first' = st.first
    /\ call' = [op |-> op,
                fresh |-> (entries = <<>> /\ ~needs_alloc),
                panic |-> st.panic,
                intrinsic |-> intrinsic,
                added |-> Len(st.entries) - Len(entries)]

\* The caller starts a new map and flag: BTreeMap::new() and false.
NewAccumulator ==
    /\ entries' = <<>>
    /\ needs_alloc' = FALSE
    /\ first' = NoFirst
    /\ call' = NoCall
    /\ UNCHANGED <<body, db>>
    /\ UNCHANGED astVars

\* The database is given another context and target.
SetDb(d) ==
    /\ call.panic = NoPanic
    /\ d # db
    /\ db' = d
    /\ call' = NoCall
    /\ UNCHANGED <<body, entries, needs_alloc, first>>
    /\ UNCHANGED astVars

\* The caller turns to the body of another function.
NewBody(l) ==
    /\ call.panic = NoPanic
    /\ body' = [e \in {Root} |-> l]
    /\ call' = NoCall
    /\ UNCHANGED <<db, entries, needs_alloc, first>>
    /\ UNCHANGED astVars

\* The body has one more expression: the last child of e.
AddExpr(e, l) ==
    /\ call.panic = NoPanic
    /\ Cardinality(DOMAIN body) < MaxExprs
    /\ e \in DOMAIN body
    /\ body[e].kind # "Path"
    /\ body' = body @@ (Append(e, Arity(body, e) + 1) :> l)
    /\ call' = NoCall
    /\ UNCHANGED <<db, entries, needs_alloc, first>>
    /\ UNCHANGED astVars

CollectFnBody ==
    /\ call.panic = NoPanic
    /\ Finish(collect_fn_body(db, Accumulator, body), "collect_fn_body", "-")
    /\ UNCHANGED <<body, db>>
    /\ UNCHANGED astVars

CollectWrapperBody ==
    /\ call.panic = NoPanic
    /\ Finish(collect_wrapper_body(db, Accumulator), "collect_wrapper_body", "-")
    /\ UNCHANGED <<body, db>>
    /\ UNCHANGED astVars

CollectIntrinsic(intrinsic) ==
    /\ call.panic = NoPanic
    /\ Finish(collect_intrinsic(db, Accumulator, intrinsic),
              "collect_intrinsic", intrinsic)
    /\ UNCHANGED <<body, db>>
    /\ UNCHANGED astVars

\* The caller is done with the result of its lookup.
Return ==
    /\ res # NoLookup
    /\ res' = NoLookup
    /\ UNCHANGED <<tree, arena, held, lastEdit>>
    /\ UNCHANGED bodyVars

Init ==
    /\ tree = [r \in {Root} |-> "SOURCE_FILE"]
    /\ arena = <<>>
    /\ held = <<>>
    /\ res = NoLookup
    /\ lastEdit = [op |-> "none", at |-> Root, pos |-> 0]
    /\ body = [e \in {Root} |-> Block]
    /\ db = "db_a"
    /\ entries = <<>>
    /\ needs_alloc = FALSE
    /\ first = NoFirst
    /\ call = NoCall

\* The syntax side: edits with their reparse, and lookups.
Next ==
    \/ \E p \in DOMAIN tree, i \in 1..(MaxNodes + 1), k \in NodeKinds :
            InsertNode(p, i, k)
    \/ \E q \in DOMAIN tree : RemoveNode(q)
    \/ \E p \in DOMAIN tree, i \in 1..MaxNodes : ReorderChildren(p, i)
    \/ \E p \in DOMAIN tree, stale \in BOOLEAN : AstId(p, stale)
    \/ Get
    \/ Return

Spec == Init /\ [][Next]_vars

\* The collector over bodies of every shape, with one database.
NextBody ==
    \/ NewAccumulator
    \/ \E l \in ExprLabels : NewBody(l)
    \/ \E e \in DOMAIN body, l \in ExprLabels : AddExpr(e, l)
    \/ CollectFnBody
    \/ CollectWrapperBody

SpecBody == Init /\ [][NextBody]_vars

\* The map under every order of requests, over single-expression bodies.
NextMap ==
    \/ NewAccumulator
    \/ \E d \in Dbs : SetDb(d)
    \/ \E l \in ExprLabels : NewBody(l)
    \/ CollectFnBody
    \/ CollectWrapperBody
    \/ \E intrinsic \in Intrinsics : CollectIntrinsic(intrinsic)

SpecMap == Init /\ [][NextMap]_vars

-----------------------------------------------------------------------------
(* Properties of the stable ids                                            *)

Items(t) == {p \in DOMAIN t : ModuleItem_cast(t[p])}

\* The handle the map a gives the node p of the parse t.
IdOf(t, a, p) == ast_id(a, SyntaxNodePtr(t, p))

StrictlyInside(q, X) == IsPrefix(X, q) /\ q # X

\* p is left of q among the nodes of one depth.
LexLess(p, q) ==
    \E k \in 1..Len(p) : SubSeq(p, 1, k - 1) = SubSeq(q, 1, k - 1) /\ p[k] < q[k]

\* p is visited before q by a walk that finishes each level, in child order,
\* before it starts the next.
LevelOrderLess(p, q) ==
    Len(p) < Len(q) \/ (Len(p) = Len(q) /\ LexLess(p, q))

\* Number of items the level-order walk meets before p.
LevelRank(t, p) == Cardinality({q \in Items(t) : LevelOrderLess(q, p)})

\* The parses t and t2 differ, and only strictly below X.
ConfinedBelow(t, t2, X) ==
    /\ t # t2
    /\ \A q \in (DOMAIN t) \cup (DOMAIN t2) :
            ~StrictlyInside(q, X) =>
                q \in DOMAIN t /\ q \in DOMAIN t2 /\ t[q] = t2[q]

\* C1 as stated: an edit confined strictly below the item X keeps the id of X
\* and of every item that is not inside X, at any depth.
C1_StableOutsideSubtree ==
    [][\A X \in Items(tree) :
          ConfinedBelow(tree, tree', X) =>
              \A Y \in Items(tree) :
                  ~StrictlyInside(Y, X) =>
                      IdOf(tree', arena', Y) = IdOf(tree, arena, Y)]_vars

\* C1 amended: an edit confined strictly below the item X keeps the id of X
\* and of every item that is not deeper in the tree than X.
C1_StableNotDeeper ==
    [][\A X \in Items(tree) :
          ConfinedBelow(tree, tree', X) =>
              \A Y \in Items(tree) :
                  Len(Y) <= Len(X) =>
                      /\ IdOf(tree, arena, Y) # Panic
                      /\ IdOf(tree', arena', Y) = IdOf(tree, arena, Y)]_vars

\* A subtree below an item X was removed, the map changed, and another item
\* that is not deeper than X exists.
C1_Witness ==
    /\ lastEdit.op = "remove"
    /\ arena # held
    /\ \E X \in Items(tree) :
          /\ IsPrefix(X, lastEdit.at)
          /\ \E Y \in Items(tree) : Y # X /\ Len(Y) <= Len(X)
          /\ \E Z \in Items(tree) : Len(Z) > Len(X) /\ ~StrictlyInside(Z, X)

\* C2: an item that is a proper ancestor of another item has the smaller id.
C2_AncestorBeforeDescendant ==
    \A A \in Items(tree) : \A B \in Items(tree) :
        StrictlyInside(B, A) =>
            /\ IdOf(tree, arena, A) # Panic
            /\ IdOf(tree, arena, B) # Panic
            /\ IdOf(tree, arena, A).raw < IdOf(tree, arena, B).raw

\* An item B nested in an item A, and an item C that follows B in the text
\* but lies less deep.
C2_Witness ==
    \E A \in Items(tree) : \E B \in Items(tree) : \E C \in Items(tree) :
        /\ StrictlyInside(B, A)
        /\ Len(C) < Len(B)
        /\ SyntaxNodePtr(tree, C).range[1] > SyntaxNodePtr(tree, B).range[1]
        /\ IdOf(tree, arena, C).raw < IdOf(tree, arena, B).raw

\* C3: inserting one node below the item P keeps the id of P and of every
\* item that is not deeper than P.
C3_InsertKeepsShallowIds ==
    [][(tree' # tree /\ lastEdit'.op = "insert") =>
          \A P \in Items(tree) :
              IsPrefix(P, lastEdit'.at) =>
                  \A Y \in Items(tree) :
                      Len(Y) <= Len(P) =>
                          /\ IdOf(tree', arena', Y) # Panic
                          /\ IdOf(tree', arena', Y) = IdOf(tree, arena, Y)]_vars

\* An item was inserted below an item P that has a later sibling item, so the
\* new item's text precedes that sibling's.
C3_Witness ==
    /\ lastEdit.op = "insert"
    /\ tree[Append(lastEdit.at, lastEdit.pos)] \in ItemKinds
    /\ \E P \in Items(tree) :
          /\ IsPrefix(P, lastEdit.at)
          /\ \E Y \in Items(tree) :
                /\ Len(Y) = Len(P)
                /\ LexLess(P, Y)
                /\ IdOf(tree, arena, Y).raw
                     < IdOf(tree, arena, Append(lastEdit.at, lastEdit.pos)).raw

\* C4: the handle ast_id gives an item of the current parse resolves, through
\* get on the same map, to the item's own locator and its own arena entry.
C4_RoundTrip ==
    (res.op # "none" /\ ~res.stale /\ res.node \in Items(tree)) =>
        /\ res.id # Panic
        /\ res.id.raw = LevelRank(tree, res.node)
        /\ res.op = "get" => res.got = SyntaxNodePtr(tree, res.node)

\* The round trip was made for an item that is not the first of the arena.
C4_Witness ==
    /\ res.op = "get"
    /\ ~res.stale
    /\ res.node \in Items(tree)
    /\ res.id.raw > 0
    /\ res.got = res.ptr

\* C5: the arena holds one entry per item and none else, the entry of an item
\* at the index that counts the items before it in level order.
C5_OneEntryPerItemInLevelOrder ==
    /\ Len(arena) = Cardinality(Items(tree))
    /\ \A p \in Items(tree) :
          arena[LevelRank(tree, p) + 1] = SyntaxNodePtr(tree, p)

\* Items on two levels together with a node that is no item, where level
\* order and text order disagree.
C5_Witness ==
    /\ \E p \in DOMAIN tree : p # Root /\ p \notin Items(tree)
    /\ \E p \in Items(tree) : \E q \in Items(tree) :
          /\ LevelOrderLess(p, q)
          /\ SyntaxNodePtr(tree, q).range[1] < SyntaxNodePtr(tree, p).range[1]

\* The map that was searched by the pending lookup.
SearchedMap == IF res.stale THEN held ELSE arena

\* C9: ast_id panics when no entry of the searched arena equals the node's
\* locator; it returns no handle.
C9_MissingEntryPanics ==
    (res.op = "ast_id" /\ \A i \in 1..Len(SearchedMap) : SearchedMap[i] # res.ptr)
        => res.id = Panic

\* An item of the current parse was looked up in a stale, non-empty map that
\* has no entry for it.
C9_Witness ==
    /\ res.op = "ast_id"
    /\ res.stale
    /\ res.node \in Items(tree)
    /\ held # <<>>
    /\ \A i \in 1..Len(held) : held[i] # res.ptr
    /\ res.id = Panic

-----------------------------------------------------------------------------
(* Properties of the collector                                             *)

\* The expressions of b that stand for an allocation.
AllocExprs(b) ==
    {e \in DOMAIN b : b[e] \in {RecordLit, Call("Struct"), Path("Struct")}}

\* The expressions of b that break what type checking guarantees.
BadExprs(b) == {e \in DOMAIN b : b[e] \in {Call("None"), Path("None")}}

\* p is walked before q: p is an ancestor of q, or left of it.
PreorderLess(p, q) ==
    \/ StrictlyInside(q, p)
    \/ \E k \in 1..Len(p) :
          /\ k <= Len(q)
          /\ SubSeq(p, 1, k - 1) = SubSeq(q, 1, k - 1)
          /\ p[k] < q[k]

\* C6: from an empty map and a false flag, collect_fn_body on a well-typed
\* body returns with the flag true exactly when some expression of the body,
\* at any depth, is a record literal, a struct-constructor call or a path to a
\* struct; with none of these the map stays empty.
C6_FlagIffAllocExpr ==
    (call.op = "collect_fn_body" /\ call.fresh /\ BadExprs(body) = {}) =>
        /\ call.panic = NoPanic
        /\ needs_alloc <=> AllocExprs(body) # {}
        /\ AllocExprs(body) = {} => entries = <<>>

\* The only allocation of a collected body is two levels below its root.
C6_Witness ==
    /\ call.op = "collect_fn_body"
    /\ call.fresh
    /\ BadExprs(body) = {}
    /\ AllocExprs(body) # {}
    /\ \A e \in AllocExprs(body) : Len(e) >= 2
    /\ needs_alloc

\* C7: the map holds one entry for the prototype of each intrinsic requested
\* and none for the others, the entry's type is the one computed at the first
\* request, and a call of an ordinary function adds no entry.
C7_OneEntryFirstTypeKept ==
    /\ \A i \in Intrinsics :
          Cardinality({j \in 1..Len(entries) : entries[j].key = prototype(i, db)})
              = IF i \in DOMAIN first THEN 1 ELSE 0
    /\ \A j \in 1..Len(entries) :
          /\ entries[j].key.name \in DOMAIN first
          /\ entries[j].value
                = ir_type(entries[j].key.name, first[entries[j].key.name])
    /\ (call.op = "collect_fn_body" /\ body[Root] = Call("Function")) =>
          call.added = 0 /\ call.panic = NoPanic

\* "new" was requested again, by a struct literal, under another database
\* than at its first request.
C7_Witness ==
    /\ call.op = "collect_fn_body"
    /\ body[Root] = RecordLit
    /\ "new" \in DOMAIN first
    /\ first["new"] # db
    /\ call.added = 0
    /\ Len(entries) >= 2

\* The map a set S of intrinsics gives under the database d, whatever the
\* order of the requests: ascending by prototype.
SortedMapOf(S, d) ==
    [j \in 1..Cardinality(S) |->
        LET i == CHOOSE x \in S :
                    Cardinality({y \in S : NameRank(y) < NameRank(x)}) = j - 1
        IN [key |-> prototype(i, d), value |-> ir_type(i, d)]]

\* C8: the keys of the map and their iteration order are those of the set of
\* intrinsics requested, ascending, and so is the whole map when the requests
\* were made under one database.
C8_MapIsFunctionOfRequestedSet ==
    /\ Len(entries) = Cardinality(DOMAIN first)
    /\ \A j \in 1..Len(entries) :
          entries[j].key = SortedMapOf(DOMAIN first, db)[j].key
    /\ \A d \in Dbs :
          (\A i \in DOMAIN first : first[i] = d) =>
              entries = SortedMapOf(DOMAIN first, d)

\* The intrinsic requested last of three is the first of the iteration.
C8_Witness ==
    /\ call.op = "collect_intrinsic"
    /\ call.intrinsic = "clone"
    /\ call.added = 1
    /\ Len(entries) = 3
    /\ entries[1].key.name = "clone"
    /\ \A i \in DOMAIN first : first[i] = db

\* C10: collect_fn_body on a body with a call whose callee is not callable, or
\* a path without a value, panics at the first such expression of the walk.
C10_BadExprPanics ==
    (call.op = "collect_fn_body" /\ BadExprs(body) # {}) =>
        /\ call.panic # NoPanic
        /\ call.panic.at \in BadExprs(body)
        /\ \A e \in BadExprs(body) : ~PreorderLess(e, call.panic.at)
        /\ call.panic.msg = IF body[call.panic.at].kind = "Call"
                            THEN "expected a callable expression"
                            ELSE "unknown path"

\* The walk panicked below the root after it had collected an allocation.
C10_Witness ==
    /\ call.op = "collect_fn_body"
    /\ call.fresh
    /\ call.panic # NoPanic
    /\ Len(call.panic.at) >= 1
    /\ needs_alloc

====
